---- MODULE Spec2Model ----
(***************************************************************************)
(* Sentiment aggregation pipeline of PythonApi/sentiment_service.py:       *)
(* analyze_sentiment -> analyze_sentiment_with_details (batch loop, count  *)
(* reconciliation, closing check, percentages, process_timestamps) ->      *)
(* get_sentiment_over_time -> cross-check.                                 *)
(*                                                                         *)
(* Time is counted in minutes.  A point in time is a record                *)
(* [wall, aware, off]: the wall-clock reading, whether the value carries a *)
(* UTC offset, and that offset.  Global post indices are 0-based as in the *)
(* source; TLA+ sequences are 1-based, so post i is valid_posts[i + 1].    *)
(***************************************************************************)
EXTENDS Integers, Sequences, FiniteSets, TLC

VARIABLES
    pc,                 \* position in analyze_sentiment
    exception,          \* "" or the exception that left analyze_sentiment
    posts,              \* argument posts
    batch_size,         \* argument batch_size
    time_interval,      \* argument time_interval
    current_time,       \* what datetime.datetime.now() returns
    valid_posts,        \* analyze_sentiment: valid_posts
    batch_start,        \* loop variable of the batch loop
    positive_count,
    neutral_count,
    negative_count,
    post_sentiments,    \* list of labeled posts
    processed_indices,
    direct_sentiment,   \* overall_sentiment as analyze_sentiment_with_details returns it
    sentiment_over_time,
    weighted_sentiment,
    significant_diff,
    result,             \* the returned AggregateResult
    degraded_indices,   \* history: posts of the batches whose oracle answer was unusable
    answers             \* history: per batch start the oracle's answer (in SpecPrompts the
                        \* prompt entries sent and the answer), where recorded

vars == <<pc, exception, posts, batch_size, time_interval, current_time, valid_posts,
          batch_start, positive_count, neutral_count, negative_count, post_sentiments,
          processed_indices, direct_sentiment, sentiment_over_time, weighted_sentiment,
          significant_diff, result, degraded_indices, answers>>

(***************************************************************************)
(* Bounds of the model.                                                    *)
(***************************************************************************)
\* Spec: posts per call, batch_size, the largest count a summary reports,
\* and the entries of an 'individual' list.
MaxPosts == 3
MaxBatchSize == 3
MaxCount == 1
MaxInd == 1
\* SpecSmall: posts per call, and batch_size.
SmallPosts == 2
\* SpecCross: posts per call (one batch).
CrossPosts == 10
\* SpecOrder: posts per call.
OrderPosts == 10
\* SpecBuckets: labeled posts per list.
BucketPosts == 11
\* SpecBatch: posts per call.
BatchPosts == 3
\* SpecPrompts: posts per call, and batch_size.
PromptPosts == 5
\* SpecStamps: labeled posts per list, in full and in the long lists.
StampFew == 3
StampPosts == 10
\* SpecTriples: posts per call (one batch).
TriplePosts == 6
\* SpecCounts: posts per call (one batch), and the largest reported count.
CountPosts == 3
MaxReported == 4

(***************************************************************************)
(* Program constants.                                                      *)
(***************************************************************************)
MinutesPerHour == 60
MinutesPerDay == 1440
MinutesPerWeek == 10080
DiscrepancyThreshold == 10
Hundred == 100

Min(a, b) == IF a <= b THEN a ELSE b
Max(a, b) == IF a >= b THEN a ELSE b
Abs(a) == IF a >= 0 THEN a ELSE -a

Sentiments == <<"positive", "neutral", "negative">>
SentimentSet == {"positive", "neutral", "negative"}

Triple(p, u, g) == [positive |-> p, neutral |-> u, negative |-> g]
Zero3 == Triple(0, 0, 0)
Sum3(t) == t.positive + t.neutral + t.negative

(***************************************************************************)
(* Python's round() of the quotient num/den (den > 0): nearest integer,    *)
(* ties to the even neighbour.                                             *)
(***************************************************************************)
\* A variant that goes to the integer above the floor of the quotient.
RoundUp(num, den) == num \div den + 1

Round(num, den) ==
    LET q == num \div den
        r == num - q * den
    IN  IF 2 * r < den THEN q
        ELSE IF 2 * r > den THEN q + 1
        ELSE IF q % 2 = 0 THEN q ELSE q + 1

(***************************************************************************)
(* The oracle's answer for one batch, by what the extraction makes of it.  *)
(*   raise    the call workflow.custom(...).run_tasks() raises             *)
(*   empty    no result text                                               *)
(*   falsy    the text is JSON of a falsy value (0, "", [], {}, null)      *)
(*   nondict  the text is JSON of a truthy value that is no object         *)
(*   strict   the text is a JSON object                                    *)
(*   embedded the text holds a {...} substring that is a JSON object       *)
(*   regex    no JSON recovered: counts and pairs come from the regexes    *)
(* summary.shape: absent | nondict | badcount (a count that is no number)  *)
(* | counts.  individual.shape: absent | notlist | list; an entry is a     *)
(* well-typed pair (ok) naming post index idx (-1: no POST_ID_<n> in its   *)
(* post_id) with a sentiment word, or anything else (not ok).              *)
(***************************************************************************)
Words == {"positive", "neg", "mixed"}

SeqsUpTo(S, n) == UNION {[1..k -> S] : k \in 0..n}

NoSummary == [shape |-> "absent", positive |-> 0, neutral |-> 0, negative |-> 0]
NoIndividual == [shape |-> "absent", entries |-> <<>>]

SummaryCounts(lo) ==
    [shape : {"counts"}, positive : lo..MaxCount, neutral : lo..MaxCount,
     negative : lo..MaxCount]

NegativeCounts ==
    {[shape |-> "counts", positive |-> -1, neutral |-> 1, negative |-> 0],
     [shape |-> "counts", positive |-> -1, neutral |-> 0, negative |-> -1]}

Summaries ==
    {NoSummary} \cup [shape : {"nondict", "badcount"}, positive : {0}, neutral : {0},
                      negative : {0}]
    \cup SummaryCounts(0) \cup NegativeCounts

Entries == [ok : {TRUE}, idx : -1..(MaxPosts - 1), word : Words]
           \cup [ok : {FALSE}, idx : {-1}, word : {"neutral"}]

Individuals ==
    {NoIndividual} \cup [shape : {"notlist"}, entries : {<<>>}]
    \cup [shape : {"list"}, entries : SeqsUpTo(Entries, MaxInd)]

RegexEntries == [ok : {TRUE}, idx : 0..(MaxPosts - 1), word : SentimentSet]

Responses ==
    [kind : {"raise", "empty", "falsy", "nondict"}, summary : {NoSummary},
     individual : {NoIndividual}]
    \cup [kind : {"strict"}, summary : Summaries, individual : Individuals]
    \cup [kind : {"embedded"}, summary : Summaries, individual : {NoIndividual}]
    \cup [kind : {"regex"}, summary : SummaryCounts(0),
          individual : [shape : {"list"}, entries : {<<>>}]]
    \cup [kind : {"regex"}, summary : [shape : {"counts"}, positive : {0}, neutral : {0},
                                       negative : {0}],
          individual : [shape : {"list"}, entries : SeqsUpTo(RegexEntries, MaxInd)]]

(***************************************************************************)
(* Count reconciliation of one batch of n posts.                           *)
(***************************************************************************)
Reconcile(p, u, g, n) ==
    LET total == p + u + g
    IN  IF total = n THEN Triple(p, u, g)
        ELSE IF total > 0
             THEN LET p2 == Round(p * n, total)
                      g2 == Round(g * n, total)
                  IN  Triple(p2, n - p2 - g2, g2)
             ELSE Triple(p, n, g)

NormalizeSentiment(word) ==
    IF word \in {"pos", "positive"} THEN "positive"
    ELSE IF word \in {"neg", "negative"} THEN "negative"
    ELSE "neutral"

(***************************************************************************)
(* sentiment_map.get(i, 'neutral'): the last entry naming index i wins.    *)
(***************************************************************************)
RECURSIVE MapGet(_, _, _)
MapGet(entries, i, k) ==
    IF k = 0 THEN "neutral"
    ELSE IF entries[k].idx = i THEN NormalizeSentiment(entries[k].word)
    ELSE MapGet(entries, i, k - 1)

\* A variant that falls back on the summary when the list names nobody.
SentimentOrSummary(resp, i) ==
    IF resp.individual.entries = <<>> /\ resp.summary.positive > 0 THEN "positive"
    ELSE MapGet(resp.individual.entries, i, Len(resp.individual.entries))

SentimentOf(resp, i) == MapGet(resp.individual.entries, i, Len(resp.individual.entries))

(***************************************************************************)
(* Percentages of three counts, the rounding drift given to the largest    *)
(* (first of positive, neutral, negative among equals).                    *)
(***************************************************************************)
AdjustLargest(t) ==
    LET d == 100 - Sum3(t)
    IN  IF t.positive >= t.neutral /\ t.positive >= t.negative
        THEN [t EXCEPT !.positive = @ + d]
        ELSE IF t.neutral >= t.positive /\ t.neutral >= t.negative
             THEN [t EXCEPT !.neutral = @ + d]
             ELSE [t EXCEPT !.negative = @ + d]

OverallPercentages(p, u, g) ==
    LET total == p + u + g
    IN  IF total > 0
        THEN LET pct == Triple(Round(p * 100, total), Round(u * 100, total),
                               Round(g * 100, total))
             IN  IF Sum3(pct) # 100 THEN AdjustLargest(pct) ELSE pct
        ELSE Zero3

(***************************************************************************)
(* Points in time and the timestamps posts arrive with.                    *)
(*   kind absent   the post has no 'timestamp' key                         *)
(*   kind datetime a native datetime, naive or aware                       *)
(*   kind string   fmt strptime: matches one of the three strptime         *)
(*                 patterns (naive, a 'Z' is read as a literal);           *)
(*                 fmt iso: read by fromisoformat only (aware iff it has   *)
(*                 an offset); fmt bad: unparseable                        *)
(*   kind other    any other type                                          *)
(***************************************************************************)
Dt(wall, aware, off) ==
    [kind |-> "datetime", fmt |-> "none", wall |-> wall, aware |-> aware, off |-> off]
NoTimestamp == [kind |-> "absent", fmt |-> "none", wall |-> 0, aware |-> FALSE, off |-> 0]
StrTimestamp(fmt, wall, aware, off) ==
    [kind |-> "string", fmt |-> fmt, wall |-> wall, aware |-> aware, off |-> off]
OtherTimestamp == [kind |-> "other", fmt |-> "none", wall |-> 0, aware |-> FALSE, off |-> 0]

Instant(ts) == IF ts.aware THEN ts.wall - ts.off ELSE ts.wall

(***************************************************************************)
(* process_timestamps, normalizing branch: one post's timestamp.           *)
(***************************************************************************)
\* A variant that leaves an unparseable string as it is (no except branch).
NormalizeKeepString(ts, now) ==
    IF ts.kind = "absent" THEN now
    ELSE IF ts.kind = "datetime" THEN ts
    ELSE IF ts.kind = "string" /\ ts.fmt = "strptime" THEN Dt(ts.wall, FALSE, 0)
    ELSE IF ts.kind = "string" /\ ts.fmt = "iso" THEN Dt(ts.wall, ts.aware, ts.off)
    ELSE IF ts.kind = "string" THEN ts
    ELSE now

NormalizeTimestamp(ts, now) ==
    IF ts.kind = "absent" THEN now
    ELSE IF ts.kind = "datetime" THEN ts
    ELSE IF ts.kind = "string" /\ ts.fmt = "strptime" THEN Dt(ts.wall, FALSE, 0)
    ELSE IF ts.kind = "string" /\ ts.fmt = "iso" THEN Dt(ts.wall, ts.aware, ts.off)
    ELSE now

(***************************************************************************)
(* process_timestamps, synthesizing branch: positions (1-based, in the     *)
(* list) of the posts of one sentiment, and their round-robin interleaving.*)
(***************************************************************************)
RECURSIVE GroupOf(_, _, _)
GroupOf(ps, s, k) ==
    IF k > Len(ps) THEN <<>>
    ELSE (IF ps[k].sentiment = s THEN <<k>> ELSE <<>>) \o GroupOf(ps, s, k + 1)

RECURSIVE Interleave(_, _, _)
Interleave(groups, i, maxsize) ==
    IF i > maxsize THEN <<>>
    ELSE (IF i <= Len(groups[1]) THEN <<groups[1][i]>> ELSE <<>>)
         \o (IF i <= Len(groups[2]) THEN <<groups[2][i]>> ELSE <<>>)
         \o (IF i <= Len(groups[3]) THEN <<groups[3][i]>> ELSE <<>>)
         \o Interleave(groups, i + 1, maxsize)

SortedForSynthesis(ps) ==
    LET groups == [j \in 1..3 |-> GroupOf(ps, Sentiments[j], 1)]
        maxsize == Max(Len(groups[1]), Max(Len(groups[2]), Len(groups[3])))
    IN  Interleave(groups, 1, maxsize)

PositionIn(seq, x) == CHOOSE i \in 1..Len(seq) : seq[i] = x

TimestampCount(ps) == Cardinality({k \in 1..Len(ps) : ps[k].ts.kind # "absent"})

\* A variant that also synthesizes at exactly 70%.
SynthesizesAtMost(ps) == 10 * TimestampCount(ps) <= 7 * Len(ps)

Synthesizes(ps) == 10 * TimestampCount(ps) < 7 * Len(ps)

ProcessTimestamps(ps, now) ==
    IF Synthesizes(ps)
    THEN LET sorted_posts == SortedForSynthesis(ps)
             n == Len(sorted_posts)
             time_start == now.wall - MinutesPerWeek
         IN  [k \in 1..Len(ps) |->
                 LET i == PositionIn(sorted_posts, k) - 1
                 IN  [ps[k] EXCEPT
                        !.ts = Dt(time_start + (MinutesPerWeek * i) \div Max(1, n - 1),
                                  FALSE, 0),
                        !.artificial = TRUE]]
    ELSE [k \in 1..Len(ps) |-> [ps[k] EXCEPT !.ts = NormalizeTimestamp(@, now)]]

(***************************************************************************)
(* get_sentiment_over_time.  sorted() is stable and compares the           *)
(* timestamps: aware ones by their UTC instant, naive ones by their wall   *)
(* clock; comparing a naive with an aware one raises TypeError, which any  *)
(* sort of a list holding both kinds must do.                              *)
(***************************************************************************)
MixedZones(ps) == \E i, j \in 1..Len(ps) : ps[i].ts.aware # ps[j].ts.aware

RECURSIVE InsertSorted(_, _, _)
InsertSorted(sorted, x, k) ==
    IF k > Len(sorted) THEN Append(sorted, x)
    ELSE IF Instant(x.ts) < Instant(sorted[k].ts)
         THEN SubSeq(sorted, 1, k - 1) \o <<x>> \o SubSeq(sorted, k, Len(sorted))
         ELSE InsertSorted(sorted, x, k + 1)

RECURSIVE SortFrom(_, _, _)
SortFrom(ps, k, acc) ==
    IF k > Len(ps) THEN acc ELSE SortFrom(ps, k + 1, InsertSorted(acc, ps[k], 1))

SortedByTimestamp(ps) == SortFrom(ps, 1, <<>>)

(***************************************************************************)
(* Period keys.  A key is the number of the hour, day or ISO week since    *)
(* the origin (a Monday, 00:00), or the ordinal k of "Period k"; the       *)
(* strings the source builds ('%Y-%m-%d %H:00', '%Y-%m-%d', 'YYYY-Www',    *)
(* 'Period k' with k <= 4) sort as these numbers do.                       *)
(***************************************************************************)
PeriodKey(ts, interval) ==
    IF interval = "hour" THEN ts.wall \div MinutesPerHour
    ELSE IF interval = "week" THEN ts.wall \div MinutesPerWeek
    ELSE ts.wall \div MinutesPerDay

KeyLabel(interval) == IF interval \in {"hour", "week"} THEN interval ELSE "day"

PostsWithKey(sorted, interval, key) ==
    LET Test(p) == PeriodKey(p.ts, interval) = key
    IN  SelectSeq(sorted, Test)

NaturalGroups(sorted, interval) ==
    LET keys == {PeriodKey(sorted[k].ts, interval) : k \in 1..Len(sorted)}
    IN  [label |-> KeyLabel(interval),
         groups |-> [key \in keys |-> PostsWithKey(sorted, interval, key)]]

MinPostsForArtificial == 10
MinPostsPerGroup == 5
TargetGroups == 4
MinGroups == 3

NumGroups(n) == Max(MinGroups, n \div Max(MinPostsPerGroup, n \div TargetGroups))

Slice(sorted, i, num_groups) ==
    SubSeq(sorted, (i * Len(sorted)) \div num_groups + 1,
           ((i + 1) * Len(sorted)) \div num_groups)

ArtificialGroups(sorted) ==
    LET n == Len(sorted)
        num_groups == NumGroups(n)
        timespan == (Instant(sorted[n].ts) - Instant(sorted[1].ts)) \div MinutesPerDay
        DateKey(i) == sorted[1].ts.wall \div MinutesPerDay
                      + (timespan * i) \div (num_groups - 1)
        Last(key) == CHOOSE i \in 0..(num_groups - 1) :
                        /\ DateKey(i) = key
                        /\ \A j \in (i + 1)..(num_groups - 1) : DateKey(j) # key
    IN  IF timespan > 0
        THEN [label |-> "day",
              groups |-> [key \in {DateKey(i) : i \in 0..(num_groups - 1)} |->
                             Slice(sorted, Last(key), num_groups)]]
        ELSE [label |-> "period",
              groups |-> [key \in 1..num_groups |-> Slice(sorted, key - 1, num_groups)]]

TimeGroups(ps, interval) ==
    LET sorted == SortedByTimestamp(ps)
        natural == NaturalGroups(sorted, interval)
    IN  IF Cardinality(DOMAIN natural.groups) < 2 /\ Len(ps) >= MinPostsForArtificial
        THEN ArtificialGroups(sorted)
        ELSE natural

CountOf(period_posts, s) ==
    Cardinality({k \in 1..Len(period_posts) : period_posts[k].sentiment = s})

\* A variant that gives the drift to the last of the largest.
AdjustLargestLast(t) ==
    LET d == 100 - Sum3(t)
    IN  IF t.negative >= t.neutral /\ t.negative >= t.positive
        THEN [t EXCEPT !.negative = @ + d]
        ELSE IF t.neutral >= t.positive
             THEN [t EXCEPT !.neutral = @ + d]
             ELSE [t EXCEPT !.positive = @ + d]

AdjustLargestMax(t) ==
    LET d == 100 - Sum3(t)
    IN  IF t.positive >= t.neutral /\ t.positive >= t.negative
        THEN [t EXCEPT !.positive = @ + d]
        ELSE IF t.neutral >= t.negative
             THEN [t EXCEPT !.neutral = @ + d]
             ELSE [t EXCEPT !.negative = @ + d]

PeriodPercentages(period_posts) ==
    LET total_count == Len(period_posts)
        pct == Triple(Round(CountOf(period_posts, "positive") * 100, total_count),
                      Round(CountOf(period_posts, "neutral") * 100, total_count),
                      Round(CountOf(period_posts, "negative") * 100, total_count))
    IN  IF Sum3(pct) # 100 /\ Sum3(pct) > 0 THEN AdjustLargestMax(pct) ELSE pct

RECURSIVE SortKeys(_)
SortKeys(keys) ==
    IF keys = {} THEN <<>>
    ELSE LET m == CHOOSE x \in keys : \A y \in keys : x <= y
         IN  <<m>> \o SortKeys(keys \ {m})

GetSentimentOverTime(ps, interval) ==
    IF Len(ps) = 0 THEN <<>>
    ELSE LET tg == TimeGroups(ps, interval)
             nonempty == {key \in DOMAIN tg.groups : Len(tg.groups[key]) > 0}
             order == SortKeys(nonempty)
         IN  [k \in 1..Len(order) |->
                 [label |-> tg.label, period |-> order[k],
                  count |-> Len(tg.groups[order[k]]),
                  sentiment |-> PeriodPercentages(tg.groups[order[k]])]]

(***************************************************************************)
(* The cross-check of analyze_sentiment.                                   *)
(***************************************************************************)
RECURSIVE SumSeq(_, _)
SumSeq(seq, k) == IF k = 0 THEN 0 ELSE seq[k] + SumSeq(seq, k - 1)

TotalPosts(series) ==
    SumSeq([k \in 1..Len(series) |-> series[k].count], Len(series))

Weighted(series, s) ==
    Round(SumSeq([k \in 1..Len(series) |-> series[k].sentiment[s] * series[k].count],
                 Len(series)),
          TotalPosts(series))

WeightedSentiment(series) ==
    LET w == Triple(Weighted(series, "positive"), Weighted(series, "neutral"),
                    Weighted(series, "negative"))
    IN  IF Sum3(w) # 100 THEN AdjustLargestMax(w) ELSE w

\* A variant of the test below with >= in place of >.
SignificantDiffAtLeast(w, overall) ==
    \E s \in SentimentSet : Abs(w[s] - overall[s]) >= DiscrepancyThreshold

SignificantDiff(w, overall) ==
    \E s \in SentimentSet : Abs(w[s] - overall[s]) > DiscrepancyThreshold

(***************************************************************************)
(* Labeled posts and the accumulator of the batch loop.                    *)
(***************************************************************************)
Labeled(i, post, sentiment) ==
    [index |-> i, sentiment |-> sentiment, ts |-> post.ts, artificial |-> FALSE]

Acc(p, u, g, ps, processed, exc) ==
    [positive_count |-> p, neutral_count |-> u, negative_count |-> g,
     post_sentiments |-> ps, processed_indices |-> processed, exception |-> exc]

EmptyAcc == Acc(0, 0, 0, <<>>, {}, "")

ExcOracle == "OracleError"
ExcResultData == "AttributeError line 176"
ExcSummary == "AttributeError line 177"
ExcCounts == "TypeError line 182"
ExcIndividuals == "TypeError line 207"
ExcEntry == "AttributeError line 208"
ExcCompare == "TypeError line 382"

(***************************************************************************)
(* One iteration of the batch loop of analyze_sentiment_with_details, for  *)
(* the batch starting at index b and the oracle's answer resp.             *)
(***************************************************************************)
BatchLast(vposts, b, bs) == Min(b + bs, Len(vposts)) - 1

RECURSIVE LabelBatch(_, _, _, _, _)
LabelBatch(vposts, i, last, processed, resp) ==
    IF i > last THEN <<>>
    ELSE (IF i \in processed THEN <<>>
          ELSE <<Labeled(i, vposts[i + 1], SentimentOf(resp, i))>>)
         \o LabelBatch(vposts, i + 1, last, processed, resp)

BadIndividuals(resp) ==
    \/ resp.individual.shape = "notlist"
    \/ \E k \in 1..Len(resp.individual.entries) : ~resp.individual.entries[k].ok

MergeBatch(acc, vposts, b, bs, resp) ==
    LET last == BatchLast(vposts, b, bs)
        n == last - b + 1
        labels == LabelBatch(vposts, b, last, acc.processed_indices, resp)
        added == Reconcile(resp.summary.positive, resp.summary.neutral,
                           resp.summary.negative, n)
        counted == [acc EXCEPT !.positive_count = @ + added.positive,
                               !.neutral_count = @ + added.neutral,
                               !.negative_count = @ + added.negative]
    IN  IF resp.kind = "raise" THEN [acc EXCEPT !.exception = ExcOracle]
        ELSE IF resp.kind = "empty" THEN acc
        ELSE IF resp.kind = "falsy"
             THEN [acc EXCEPT !.post_sentiments = @ \o labels,
                              !.processed_indices = @ \cup (b..last),
                              !.neutral_count = @ + n]
        ELSE IF resp.kind = "nondict" THEN [acc EXCEPT !.exception = ExcResultData]
        ELSE IF resp.summary.shape = "nondict" THEN [acc EXCEPT !.exception = ExcSummary]
        ELSE IF resp.summary.shape = "badcount" THEN [acc EXCEPT !.exception = ExcCounts]
        ELSE IF resp.individual.shape = "notlist"
             THEN [counted EXCEPT !.exception = ExcIndividuals]
        ELSE IF BadIndividuals(resp) THEN [counted EXCEPT !.exception = ExcEntry]
        ELSE [counted EXCEPT !.post_sentiments = @ \o labels,
                             !.processed_indices = @ \cup (b..last)]

(***************************************************************************)
(* The closing check: every index the loop left out is appended as         *)
(* neutral and counted as neutral.  processed_indices is not updated.      *)
(***************************************************************************)
RECURSIVE FillMissing(_, _, _)
FillMissing(vposts, i, processed) ==
    IF i >= Len(vposts) THEN <<>>
    ELSE (IF i \in processed THEN <<>> ELSE <<Labeled(i, vposts[i + 1], "neutral")>>)
         \o FillMissing(vposts, i + 1, processed)

CloseAcc(acc, vposts) ==
    IF Cardinality(acc.processed_indices) # Len(vposts)
    THEN LET filled == FillMissing(vposts, 0, acc.processed_indices)
         IN  [acc EXCEPT !.post_sentiments = @ \o filled,
                         !.neutral_count = @ + Len(filled)]
    ELSE acc

(***************************************************************************)
(* The consistency check of analyze_sentiment and what it returns.         *)
(***************************************************************************)
NoResult == [returned |-> FALSE, overall |-> Zero3, overTime |-> <<>>]
Returned(overall, overTime) ==
    [returned |-> TRUE, overall |-> overall, overTime |-> overTime]

Checked(series) == Len(series) > 0 /\ TotalPosts(series) > 0

Overall(direct, series) ==
    IF Checked(series) /\ SignificantDiff(WeightedSentiment(series), direct)
    THEN WeightedSentiment(series)
    ELSE direct

(***************************************************************************)
(* The state machine: analyze_sentiment called once.                       *)
(***************************************************************************)
InputPost(text, ts) == [text |-> text, ts |-> ts]

NowWall == 3 * MinutesPerWeek + 2 * MinutesPerDay + 630
EarlierWall == NowWall - MinutesPerDay - 45

InitWith(ps, bs, interval) ==
    /\ pc = "start"
    /\ exception = ""
    /\ posts = ps
    /\ batch_size = bs
    /\ time_interval = interval
    /\ current_time = Dt(NowWall, FALSE, 0)
    /\ valid_posts = <<>>
    /\ batch_start = 0
    /\ positive_count = 0
    /\ neutral_count = 0
    /\ negative_count = 0
    /\ post_sentiments = <<>>
    /\ processed_indices = {}
    /\ direct_sentiment = Zero3
    /\ sentiment_over_time = <<>>
    /\ weighted_sentiment = Zero3
    /\ significant_diff = FALSE
    /\ result = NoResult
    /\ degraded_indices = {}
    /\ answers = <<>>

\* A variant that takes every element for a valid post.
IsValidAlways(post) == TRUE

IsValid(post) == post.text

Validate ==
    /\ pc = "start"
    /\ LET valid == SelectSeq(posts, IsValid)
       IN  /\ valid_posts' = valid
           /\ IF Len(valid) = 0
              THEN /\ pc' = "done"
                   /\ result' = Returned(Zero3, <<>>)
              ELSE /\ pc' = "batch"
                   /\ result' = result
    /\ UNCHANGED <<exception, posts, batch_size, time_interval, current_time, batch_start,
                   positive_count, neutral_count, negative_count, post_sentiments,
                   processed_indices, direct_sentiment, sentiment_over_time,
                   weighted_sentiment, significant_diff, degraded_indices, answers>>

NumValid == Len(valid_posts)

CurrentAcc ==
    Acc(positive_count, neutral_count, negative_count, post_sentiments,
        processed_indices, exception)

BatchIndices == batch_start..BatchLast(valid_posts, batch_start, batch_size)
BatchLen == Cardinality(BatchIndices)

NoData(resp) ==
    \/ resp.kind \in {"raise", "empty", "falsy"}
    \/ /\ resp.kind = "regex"
       /\ Sum3(resp.summary) = 0
       /\ resp.individual.entries = <<>>

BatchStep(resp) ==
    /\ pc = "batch"
    /\ LET acc == MergeBatch(CurrentAcc, valid_posts, batch_start, batch_size, resp)
       IN  /\ positive_count' = acc.positive_count
           /\ neutral_count' = acc.neutral_count
           /\ negative_count' = acc.negative_count
           /\ post_sentiments' = acc.post_sentiments
           /\ processed_indices' = acc.processed_indices
           /\ exception' = acc.exception
           /\ IF acc.exception # ""
              THEN /\ pc' = "raised"
                   /\ batch_start' = batch_start
              ELSE /\ pc' = IF batch_start + batch_size >= Len(valid_posts)
                            THEN "verify" ELSE "batch"
                   /\ batch_start' = batch_start + batch_size
    /\ degraded_indices' = degraded_indices \cup (IF NoData(resp) THEN BatchIndices ELSE {})
    /\ UNCHANGED <<posts, batch_size, time_interval, current_time, valid_posts,
                   direct_sentiment, sentiment_over_time, weighted_sentiment,
                   significant_diff, result>>

HandleBatch(resp) == BatchStep(resp) /\ UNCHANGED answers

HandleBatchRecorded(resp) == BatchStep(resp) /\ answers' = (batch_start :> resp) @@ answers

(***************************************************************************)
(* The entries of the prompt of the batch starting at b: the identifier n  *)
(* of 'POST_ID_n' and the text, "(No content)" for a post without text.    *)
(***************************************************************************)
\* A variant that numbers the posts within their batch.
PostIdInBatch(b, i) == i

PostId(b, i) == b + i

PromptText(post) == IF post.text THEN "text" ELSE "(No content)"

Prompt(vposts, b, bs) ==
    [k \in 1..(BatchLast(vposts, b, bs) - b + 1) |->
        [post_id |-> PostId(b, k - 1), text |-> PromptText(vposts[b + k])]]

HandleBatchPrompted(resp) ==
    /\ BatchStep(resp)
    /\ answers' = (batch_start :> [prompt |-> Prompt(valid_posts, batch_start, batch_size),
                                   answer |-> resp]) @@ answers

ClosingCheck ==
    /\ pc = "verify"
    /\ pc' = "percent"
    /\ LET acc == CloseAcc(CurrentAcc, valid_posts)
       IN  /\ post_sentiments' = acc.post_sentiments
           /\ neutral_count' = acc.neutral_count
    /\ UNCHANGED <<exception, posts, batch_size, time_interval, current_time, valid_posts,
                   batch_start, positive_count, negative_count, processed_indices,
                   direct_sentiment, sentiment_over_time, weighted_sentiment,
                   significant_diff, result, degraded_indices, answers>>

ComputeOverall ==
    /\ pc = "percent"
    /\ pc' = "timestamps"
    /\ direct_sentiment' = OverallPercentages(positive_count, neutral_count, negative_count)
    /\ UNCHANGED <<exception, posts, batch_size, time_interval, current_time, valid_posts,
                   batch_start, positive_count, neutral_count, negative_count,
                   post_sentiments, processed_indices, sentiment_over_time,
                   weighted_sentiment, significant_diff, result, degraded_indices, answers>>

CallProcessTimestamps ==
    /\ pc = "timestamps"
    /\ pc' = "overtime"
    /\ post_sentiments' = ProcessTimestamps(post_sentiments, current_time)
    /\ UNCHANGED <<exception, posts, batch_size, time_interval, current_time, valid_posts,
                   batch_start, positive_count, neutral_count, negative_count,
                   processed_indices, direct_sentiment, sentiment_over_time,
                   weighted_sentiment, significant_diff, result, degraded_indices, answers>>

CallGetSentimentOverTime ==
    /\ pc = "overtime"
    /\ IF Len(post_sentiments) >= 2 /\ MixedZones(post_sentiments)
       THEN /\ pc' = "raised"
            /\ exception' = ExcCompare
            /\ UNCHANGED sentiment_over_time
       ELSE /\ pc' = "crosscheck"
            /\ sentiment_over_time' = GetSentimentOverTime(post_sentiments, time_interval)
            /\ UNCHANGED exception
    /\ UNCHANGED <<posts, batch_size, time_interval, current_time, valid_posts,
                   batch_start, positive_count, neutral_count, negative_count,
                   post_sentiments, processed_indices, direct_sentiment,
                   weighted_sentiment, significant_diff, result, degraded_indices, answers>>

CrossCheck ==
    /\ pc = "crosscheck"
    /\ pc' = "done"
    /\ IF Checked(sentiment_over_time)
       THEN /\ weighted_sentiment' = WeightedSentiment(sentiment_over_time)
            /\ significant_diff' = SignificantDiff(WeightedSentiment(sentiment_over_time),
                                                   direct_sentiment)
       ELSE UNCHANGED <<weighted_sentiment, significant_diff>>
    /\ result' = Returned(Overall(direct_sentiment, sentiment_over_time),
                          sentiment_over_time)
    /\ UNCHANGED <<exception, posts, batch_size, time_interval, current_time, valid_posts,
                   batch_start, positive_count, neutral_count, negative_count,
                   post_sentiments, processed_indices, direct_sentiment,
                   sentiment_over_time, degraded_indices, answers>>

AfterBatches ==
    \/ ClosingCheck
    \/ ComputeOverall
    \/ CallProcessTimestamps
    \/ CallGetSentimentOverTime
    \/ CrossCheck

(***************************************************************************)
(* analyze_sentiment as a function of the order in which the batches are   *)
(* merged: the batch loop over the batch starts in the given order, then   *)
(* the rest of the pipeline.                                               *)
(***************************************************************************)
RECURSIVE MergeAll(_, _, _, _, _, _)
MergeAll(acc, vposts, bs, order, recorded, k) ==
    IF k > Len(order) \/ acc.exception # "" THEN acc
    ELSE MergeAll(MergeBatch(acc, vposts, order[k], bs, recorded[order[k]]),
                  vposts, bs, order, recorded, k + 1)

Finish(acc, vposts, now, interval) ==
    LET closed == CloseAcc(acc, vposts)
        direct == OverallPercentages(closed.positive_count, closed.neutral_count,
                                     closed.negative_count)
        labeled == ProcessTimestamps(closed.post_sentiments, now)
        series == GetSentimentOverTime(labeled, interval)
    IN  [counts |-> Triple(closed.positive_count, closed.neutral_count,
                           closed.negative_count),
         labels |-> {<<labeled[k].index, labeled[k].sentiment>> : k \in 1..Len(labeled)},
         length |-> Len(labeled),
         result |-> Returned(Overall(direct, series), series)]

BatchStarts(n, bs) == {b \in 0..(n - 1) : b % bs = 0}

Orders(starts) ==
    {order \in [1..Cardinality(starts) -> starts] :
        \A i, j \in 1..Cardinality(starts) : order[i] = order[j] => i = j}

RunInOrderOf(order, vposts, bs, recorded, now, interval) ==
    Finish(MergeAll(EmptyAcc, vposts, bs, order, recorded, 1), vposts, now, interval)

(***************************************************************************)
(* Spec: up to MaxPosts posts, any oracle answer of Responses per batch.   *)
(***************************************************************************)
InputTimestamps == {NoTimestamp, StrTimestamp("bad", 0, FALSE, 0)}

InputPosts == [text : {TRUE}, ts : InputTimestamps]

Init ==
    \E ps \in SeqsUpTo(InputPosts, MaxPosts), bs \in 1..MaxBatchSize :
        InitWith(ps, bs, "day")

Next ==
    \/ Validate
    \/ \E resp \in Responses : HandleBatch(resp)
    \/ AfterBatches

Spec == Init /\ [][Next]_vars

(***************************************************************************)
(* SpecSmall: up to SmallPosts posts, some of them invalid, with every     *)
(* kind of timestamp, and a few oracle answers per batch.                  *)
(***************************************************************************)
SmallTimestamps ==
    {NoTimestamp,
     Dt(EarlierWall, FALSE, 0),
     Dt(EarlierWall, TRUE, 0),
     StrTimestamp("strptime", EarlierWall, FALSE, 0),
     StrTimestamp("iso", NowWall, TRUE, 2 * MinutesPerHour),
     StrTimestamp("bad", 0, FALSE, 0),
     OtherTimestamp}

SmallInputPosts == [text : {TRUE}, ts : SmallTimestamps] \cup {InputPost(FALSE, NoTimestamp)}

SmallEntries == [ok : {TRUE}, idx : {0, 1}, word : {"positive", "mixed"}]

SmallResponses ==
    [kind : {"raise", "empty", "falsy"}, summary : {NoSummary}, individual : {NoIndividual}]
    \cup [kind : {"strict"}, summary : {NoSummary},
          individual : [shape : {"list"}, entries : SeqsUpTo(SmallEntries, 1)]]

InitSmall ==
    \E ps \in SeqsUpTo(SmallInputPosts, SmallPosts), bs \in 1..SmallPosts :
        InitWith(ps, bs, "day")

NextSmall ==
    \/ Validate
    \/ \E resp \in SmallResponses : HandleBatch(resp)
    \/ AfterBatches

SpecSmall == InitSmall /\ [][NextSmall]_vars

(***************************************************************************)
(* Oracle answers of a fixed pattern for the batch of n posts starting at  *)
(* b: a summary of counts, and 'individual' entries that name the first a  *)
(* posts of the batch positive and the next g negative.                    *)
(***************************************************************************)
Pattern(b, summary, a, g) ==
    [kind |-> "strict",
     summary |-> [shape |-> "counts", positive |-> summary.positive,
                  neutral |-> summary.neutral, negative |-> summary.negative],
     individual |-> [shape |-> "list",
                     entries |-> [k \in 1..(a + g) |->
                                     [ok |-> TRUE, idx |-> b + k - 1,
                                      word |-> IF k <= a THEN "positive" ELSE "negative"]]]]

Splits(n) == {t \in [positive : 0..n, neutral : 0..n, negative : 0..n] : Sum3(t) = n}

SameInstant(n) == [k \in 1..n |-> InputPost(TRUE, Dt(EarlierWall, FALSE, 0))]
AllAbsent(n) == [k \in 1..n |-> InputPost(TRUE, NoTimestamp)]
SameDay(n) == [k \in 1..n |-> InputPost(TRUE, Dt(EarlierWall + (n - k), FALSE, 0))]

(***************************************************************************)
(* SpecCross: CrossPosts posts in one batch; the summary and the labels of *)
(* the answer vary independently.                                          *)
(***************************************************************************)
CrossResponses ==
    {Pattern(0, summary, labels.positive, labels.negative) :
        summary \in Splits(CrossPosts), labels \in Splits(CrossPosts)}

InitCross ==
    \E ps \in {SameInstant(CrossPosts), AllAbsent(CrossPosts)} :
        InitWith(ps, CrossPosts, "day")

NextCross ==
    \/ Validate
    \/ \E resp \in CrossResponses : HandleBatch(resp)
    \/ AfterBatches

SpecCross == InitCross /\ [][NextCross]_vars

(***************************************************************************)
(* SpecOrder: OrderPosts posts in batches of 4 or 5; each batch is         *)
(* answered with one sentiment for all its posts, or with no text; the     *)
(* answers are recorded.                                                   *)
(***************************************************************************)
OrderBatchSizes == {4, 5}

Uniform(b, n, s) ==
    Pattern(b, Triple(IF s = "positive" THEN n ELSE 0, IF s = "neutral" THEN n ELSE 0,
                      IF s = "negative" THEN n ELSE 0),
            IF s = "positive" THEN n ELSE 0, IF s = "negative" THEN n ELSE 0)

OrderResponses(b, n) ==
    {Uniform(b, n, s) : s \in SentimentSet}
    \cup {[kind |-> "empty", summary |-> NoSummary, individual |-> NoIndividual]}

InitOrder ==
    \E ps \in {SameInstant(OrderPosts), AllAbsent(OrderPosts), SameDay(OrderPosts)},
       bs \in OrderBatchSizes :
        InitWith(ps, bs, "day")

NextOrder ==
    \/ Validate
    \/ \E resp \in OrderResponses(batch_start, BatchLen) : HandleBatchRecorded(resp)
    \/ AfterBatches

SpecOrder == InitOrder /\ [][NextOrder]_vars

(***************************************************************************)
(* A function of the pipeline entered on its own: the position pc stands   *)
(* at its call, the running counts and the labeled list are its inputs.    *)
(***************************************************************************)
Entered(position, counts, labeled, interval) ==
    /\ pc = position
    /\ exception = ""
    /\ posts = <<>>
    /\ batch_size = 1
    /\ time_interval = interval
    /\ current_time = Dt(NowWall, FALSE, 0)
    /\ valid_posts = <<>>
    /\ batch_start = 0
    /\ positive_count = counts.positive
    /\ neutral_count = counts.neutral
    /\ negative_count = counts.negative
    /\ post_sentiments = labeled
    /\ processed_indices = {}
    /\ direct_sentiment = Zero3
    /\ sentiment_over_time = <<>>
    /\ weighted_sentiment = Zero3
    /\ significant_diff = FALSE
    /\ result = NoResult
    /\ degraded_indices = {}
    /\ answers = <<>>

(***************************************************************************)
(* SpecBatch: up to BatchPosts posts in one or two batches; every batch is *)
(* answered with a JSON object whose summary matches the batch size or     *)
(* does not, and whose 'individual' list holds up to two entries: pairs    *)
(* naming the first or the last post of the call with a word, or a value   *)
(* that is no object.  The answers are recorded.                           *)
(***************************************************************************)
JunkEntry == [ok |-> FALSE, idx |-> -1, word |-> "neutral"]

BatchEntries(n) ==
    [ok : {TRUE}, idx : {0, n - 1}, word : {"positive", "negative", "mixed"}]
    \cup {JunkEntry}

BatchSummaries(m) ==
    {[shape |-> "counts", positive |-> t.positive, neutral |-> t.neutral,
      negative |-> t.negative] :
        t \in {Triple(m, 0, 0), Triple(0, 1, m - 1), Zero3, Triple(m, m, m)}}

BatchResponses(n, m) ==
    [kind : {"strict"}, summary : BatchSummaries(m),
     individual : [shape : {"list"}, entries : SeqsUpTo(BatchEntries(n), 2)]]

InitBatch ==
    \E n \in 1..BatchPosts, bs \in {BatchPosts - 1, BatchPosts} :
        InitWith(AllAbsent(n), bs, "day")

NextBatch ==
    \/ Validate
    \/ pc = "batch"
       /\ \E resp \in BatchResponses(NumValid, BatchLen) : HandleBatchRecorded(resp)
    \/ AfterBatches

SpecBatch == InitBatch /\ [][NextBatch]_vars

(***************************************************************************)
(* SpecPrompts: analyze_sentiment_with_details called with up to           *)
(* PromptPosts posts, with or without text, and a batch_size up to         *)
(* PromptPosts; each batch is answered with all its posts positive, or     *)
(* with no text; the prompt entries of each batch are recorded.            *)
(***************************************************************************)
PromptInputs ==
    UNION {[1..n -> {InputPost(TRUE, NoTimestamp), InputPost(FALSE, NoTimestamp)}] :
              n \in 1..PromptPosts}

InitPrompts ==
    \E ps \in PromptInputs, bs \in 1..PromptPosts :
        /\ pc = "batch"
        /\ exception = ""
        /\ posts = ps
        /\ batch_size = bs
        /\ time_interval = "day"
        /\ current_time = Dt(NowWall, FALSE, 0)
        /\ valid_posts = ps
        /\ batch_start = 0
        /\ positive_count = 0
        /\ neutral_count = 0
        /\ negative_count = 0
        /\ post_sentiments = <<>>
        /\ processed_indices = {}
        /\ direct_sentiment = Zero3
        /\ sentiment_over_time = <<>>
        /\ weighted_sentiment = Zero3
        /\ significant_diff = FALSE
        /\ result = NoResult
        /\ degraded_indices = {}
        /\ answers = <<>>

NextPrompts ==
    \/ \E resp \in {Uniform(batch_start, BatchLen, "positive"),
                    [kind |-> "empty", summary |-> NoSummary, individual |-> NoIndividual]} :
          HandleBatchPrompted(resp)
    \/ ClosingCheck
    \/ ComputeOverall
    \/ CallProcessTimestamps

SpecPrompts == InitPrompts /\ [][NextPrompts]_vars

(***************************************************************************)
(* SpecCounts: up to CountPosts posts in one batch, answered with a JSON   *)
(* object that has a summary of three integers from -1 to MaxReported and  *)
(* no 'individual' list.  The answer is recorded.                          *)
(***************************************************************************)
CountResponses ==
    [kind : {"strict"},
     summary : [shape : {"counts"}, positive : -1..MaxReported,
                neutral : -1..MaxReported, negative : -1..MaxReported],
     individual : {NoIndividual}]

InitCounts == \E n \in 1..CountPosts : InitWith(AllAbsent(n), CountPosts, "day")

NextCounts ==
    \/ Validate
    \/ \E resp \in CountResponses : HandleBatchRecorded(resp)
    \/ AfterBatches

SpecCounts == InitCounts /\ [][NextCounts]_vars

(***************************************************************************)
(* SpecBuckets: get_sentiment_over_time called on a list of labeled posts  *)
(* whose timestamps are points in time, with each of the three intervals.  *)
(* The lists: up to two posts with timestamps around a week's end, naive   *)
(* or aware with different UTC offsets; and up to BucketPosts posts, the   *)
(* k-th of them gap minutes later than the next one (gap 0: one instant),  *)
(* so that the list arrives in reverse chronological order.                *)
(***************************************************************************)
LabeledAt(i, ts) ==
    [index |-> i, sentiment |-> Sentiments[(i % 3) + 1], ts |-> ts, artificial |-> FALSE]

WeekStartWall == 3 * MinutesPerWeek + 10
WeekEndWall == 4 * MinutesPerWeek - 30

BucketStamps ==
    {Dt(WeekEndWall - 20, FALSE, 0), Dt(WeekEndWall, FALSE, 0), Dt(WeekEndWall + 60, FALSE, 0),
     Dt(WeekEndWall, TRUE, 0), Dt(WeekEndWall + 60, TRUE, 5 * MinutesPerHour)}

FewLabeled ==
    {[k \in 1..Len(stamps) |-> LabeledAt(k - 1, stamps[k])] :
        stamps \in SeqsUpTo(BucketStamps, 2)}

BucketGaps == {0, 1, 45, 200, 300, 1500}

Descending(n, gap) ==
    [k \in 1..n |-> LabeledAt(k - 1, Dt(WeekStartWall + gap * (n - k), FALSE, 0))]

BucketLists ==
    FewLabeled \cup {Descending(n, gap) : n \in 1..BucketPosts, gap \in BucketGaps}

InitBuckets ==
    \E ps \in BucketLists, interval \in {"hour", "day", "week"} :
        Entered("overtime", Zero3, ps, interval)

NextBuckets == CallGetSentimentOverTime

SpecBuckets == InitBuckets /\ [][NextBuckets]_vars

(***************************************************************************)
(* SpecStamps: process_timestamps called on a list of labeled posts: every *)
(* list of up to StampFew posts with a sentiment each and no timestamp, a  *)
(* native one or an unparseable string; and lists of StampPosts posts, the *)
(* first a positive, the next g negative, the rest neutral, of which the   *)
(* first k carry a native timestamp.                                       *)
(***************************************************************************)
StampLists ==
    UNION {[1..n -> [sentiment : SentimentSet,
                     ts : {NoTimestamp, Dt(EarlierWall, FALSE, 0),
                           StrTimestamp("bad", 0, FALSE, 0)}]] : n \in 1..StampFew}
    \cup {[j \in 1..StampPosts |->
              [sentiment |-> IF j <= t.positive THEN "positive"
                             ELSE IF j <= t.positive + t.negative THEN "negative"
                             ELSE "neutral",
               ts |-> IF j <= k THEN Dt(EarlierWall + j, FALSE, 0) ELSE NoTimestamp]] :
            t \in Splits(StampPosts), k \in 0..StampPosts}

InitStamps ==
    \E raw \in StampLists :
        Entered("timestamps", Zero3,
                [j \in 1..Len(raw) |-> [index |-> j - 1, sentiment |-> raw[j].sentiment,
                                        ts |-> raw[j].ts, artificial |-> FALSE]],
                "day")

NextStamps == CallProcessTimestamps

SpecStamps == InitStamps /\ [][NextStamps]_vars

(***************************************************************************)
(* SpecTriples: up to TriplePosts posts in one batch, all of one instant,  *)
(* all without timestamp, or half of them a day after the others; the      *)
(* summary and the labels of the answer vary independently.                *)
(***************************************************************************)
TwoDays(n) ==
    [k \in 1..n |->
        InputPost(TRUE, Dt(EarlierWall + (IF 2 * k > n THEN MinutesPerDay ELSE 0),
                           FALSE, 0))]

TripleResponses(n) ==
    {Pattern(0, summary, labels.positive, labels.negative) :
        summary \in Splits(n), labels \in Splits(n)}

InitTriples ==
    \E n \in 1..TriplePosts :
        \E ps \in {SameInstant(n), AllAbsent(n), TwoDays(n)} :
            InitWith(ps, TriplePosts, "day")

NextTriples ==
    \/ Validate
    \/ pc = "batch" /\ \E resp \in TripleResponses(NumValid) : HandleBatch(resp)
    \/ AfterBatches

SpecTriples == InitTriples /\ [][NextTriples]_vars

(***************************************************************************)
(* SpecPercent: the percentage computation applied to counts that are      *)
(* themselves percentages: the overall computation of                      *)
(* analyze_sentiment_with_details entered with every triple of counts that *)
(* sums to 100.  PercentBlock(t) is a period of 100 labeled posts with the *)
(* counts t.                                                               *)
(***************************************************************************)
PercentBlock(t) ==
    [k \in 1..Hundred |->
        [index |-> k - 1,
         sentiment |-> IF k <= t.positive THEN "positive"
                       ELSE IF k <= t.positive + t.neutral THEN "neutral"
                       ELSE "negative",
         ts |-> Dt(WeekStartWall, FALSE, 0),
         artificial |-> FALSE]]

InitPercent == \E t \in Splits(Hundred) : Entered("percent", t, <<>>, "day")

NextPercent == ComputeOverall

SpecPercent == InitPercent /\ [][NextPercent]_vars

(***************************************************************************)
(* Properties.                                                             *)
(***************************************************************************)
AllIndices == 0..(NumValid - 1)

LabeledIndices == {post_sentiments[k].index : k \in 1..Len(post_sentiments)}

LabelsOf(i) ==
    {post_sentiments[k].sentiment : k \in {j \in 1..Len(post_sentiments) :
                                              post_sentiments[j].index = i}}

ParserErrors == {ExcResultData, ExcSummary, ExcCounts, ExcIndividuals, ExcEntry}

CountsSum == positive_count + neutral_count + negative_count

\* analyze_sentiment_with_details has returned to analyze_sentiment.
DetailsReturned ==
    \/ pc \in {"overtime", "crosscheck"}
    \/ pc = "done" /\ NumValid > 0
    \/ pc = "raised" /\ exception = ExcCompare

\* The overall percentages of analyze_sentiment_with_details have been computed.
PercentagesComputed == pc = "timestamps" \/ DetailsReturned

InRange(t) == \A s \in SentimentSet : t[s] \in 0..100

SumsTo100(total, t) == IF total # 0 THEN Sum3(t) = 100 ELSE t = Zero3

\* C1: whatever text the oracle returns for a batch (of any JSON shape, with
\* 'summary' and 'individual' of any type), handling the response raises no
\* error, and every post has its label when the batch loop and the closing
\* check are over.
ResponseHandlingNeverRaises ==
    /\ exception \notin ParserErrors
    /\ pc = "percent" => LabeledIndices = AllIndices

\* C2: whatever mix of absent, native (naive or aware), recognized-string and
\* unparseable timestamps the posts carry, analyze_sentiment raises nothing
\* on their account and ends by returning a result.
TimestampsNeverFatal ==
    /\ exception # ExcCompare
    /\ pc = "done" => result.returned

\* C3: in every iteration of the batch loop that adds counts to the running
\* totals, the three counts added sum to len(batch), whatever integer
\* counts the response reported.
ReconciledCountsSumToBatch ==
    [][(pc = "batch" /\ (processed_indices' # processed_indices
                         \/ exception' \in {ExcIndividuals, ExcEntry}))
       => (positive_count' + neutral_count' + negative_count') - CountsSum = BatchLen]_vars

\* C4: the direct overall triple, every period's triple and the
\* time-weighted triple each sum to 100 when their total is nonzero, and
\* are (0,0,0) when it is zero.
PercentagesSumTo100 ==
    /\ PercentagesComputed => SumsTo100(CountsSum, direct_sentiment)
    /\ \A k \in 1..Len(sentiment_over_time) :
          SumsTo100(sentiment_over_time[k].count, sentiment_over_time[k].sentiment)
    /\ (pc = "done" /\ Checked(sentiment_over_time))
          => SumsTo100(TotalPosts(sentiment_over_time), weighted_sentiment)

\* C5: every value of the overall triple analyze_sentiment_with_details
\* returns, of the overall triple analyze_sentiment returns and of every
\* period's triple lies in 0..100.
PercentagesInRange ==
    /\ PercentagesComputed => InRange(direct_sentiment)
    /\ \A k \in 1..Len(sentiment_over_time) : InRange(sentiment_over_time[k].sentiment)
    /\ result.returned => InRange(result.overall)

\* C6: when analyze_sentiment_with_details has returned, the labeled list
\* holds exactly one entry for each index 0..N-1, each with a sentiment of
\* the three and a timestamp that is a point in time.
LabeledListComplete ==
    DetailsReturned =>
        /\ Len(post_sentiments) = NumValid
        /\ LabeledIndices = AllIndices
        /\ \A k \in 1..Len(post_sentiments) :
              /\ post_sentiments[k].sentiment \in SentimentSet
              /\ post_sentiments[k].ts.kind = "datetime"

\* C6, its case: a call that returned where the closing check had to fill a
\* batch the loop skipped and a timestamp string had to be normalized.
FilledAndNormalized ==
    /\ DetailsReturned
    /\ NumValid >= 2
    /\ processed_indices # AllIndices
    /\ \E k \in 1..Len(post_sentiments) : post_sentiments[k].sentiment = "positive"
    /\ \E k \in 1..NumValid : valid_posts[k].ts.kind = "string"
    /\ \A k \in 1..Len(post_sentiments) : ~post_sentiments[k].artificial

\* C7: when a batch's oracle call raises, returns no text or returns text
\* no tier recovers data from, the pipeline still goes on to a result, every
\* post of that batch is labeled neutral, and a call all of whose batches
\* went that way counts (0, N, 0).
FailedBatchDegradesToNeutral ==
    /\ exception # ExcOracle
    /\ pc = "percent" => \A i \in degraded_indices : LabelsOf(i) = {"neutral"}
    /\ (pc = "percent" /\ degraded_indices = AllIndices)
          => Triple(positive_count, neutral_count, negative_count) = Triple(0, NumValid, 0)

\* C8: at the moment the overall percentages are computed the processed
\* index set is {0..N-1}, every index has its label, and the three running
\* counts sum to N.
ClosingCheckBarrier ==
    pc = "percent" =>
        /\ processed_indices = AllIndices
        /\ LabeledIndices = AllIndices
        /\ CountsSum = NumValid

\* C9: merging the recorded batch answers in any order of the batches drops
\* and duplicates no post, gives every post the same sentiment and the same
\* counts, and returns the same overall and overTime as the in-order run.
MergeOrderIrrelevant ==
    (pc = "done" /\ NumValid > 0) =>
        \A order \in Orders(BatchStarts(NumValid, batch_size)) :
            LET run == RunInOrderOf(order, valid_posts, batch_size, answers,
                                    current_time, time_interval)
            IN  /\ run.length = NumValid
                /\ run.labels = {<<i, s>> \in AllIndices \X SentimentSet : s \in LabelsOf(i)}
                /\ run.counts = Triple(positive_count, neutral_count, negative_count)
                /\ run.result = result

FarApart(w, direct) ==
    \E s \in SentimentSet : Abs(w[s] - direct[s]) > DiscrepancyThreshold

\* C10, as amended: analyze_sentiment returns the time-weighted triple as
\* 'overall' if some category of it differs from the direct triple by more
\* than 10 points, and the direct triple otherwise; 'overTime' is the series
\* the bucketing produced.
OverallIsWeightedOrDirect ==
    (pc = "done" /\ NumValid > 0) =>
        LET w == WeightedSentiment(sentiment_over_time)
        IN  /\ result.returned
            /\ result.overall = IF FarApart(w, direct_sentiment) THEN w
                                ELSE direct_sentiment
            /\ result.overTime = GetSentimentOverTime(post_sentiments, time_interval)

\* C10, its case: a call that ended with a category exactly 10 points apart
\* and none further, so that 'overall' is the direct triple and not the
\* time-weighted one.
ExactlyTenApart ==
    /\ pc = "done"
    /\ NumValid > 0
    /\ \E s \in SentimentSet :
          Abs(WeightedSentiment(sentiment_over_time)[s] - direct_sentiment[s])
              = DiscrepancyThreshold
    /\ ~FarApart(WeightedSentiment(sentiment_over_time), direct_sentiment)
    /\ result.overall = direct_sentiment
    /\ result.overall # WeightedSentiment(sentiment_over_time)

\* C10, as stated: 'overall' equals the time-weighted triple if and only if
\* some category differs by more than 10 points; otherwise it equals the
\* direct triple.
OverallIsWeightedIffFarApart ==
    (pc = "done" /\ NumValid > 0) =>
        LET w == WeightedSentiment(sentiment_over_time)
        IN  /\ (result.overall = w) <=> FarApart(w, direct_sentiment)
            /\ ~FarApart(w, direct_sentiment) => result.overall = direct_sentiment
            /\ result.overTime = GetSentimentOverTime(post_sentiments, time_interval)

\* get_sentiment_over_time has returned its series.
SeriesReturned == pc = "crosscheck"

OneInstant(ps) == \A j, k \in 1..Len(ps) : ps[j].ts = ps[k].ts

\* C11: for a non-empty list of labeled posts that all share one instant,
\* with any of the intervals hour, day and week, get_sentiment_over_time
\* returns at least 3 buckets.
SameInstantGivesThreeBuckets ==
    (SeriesReturned /\ Len(post_sentiments) > 0 /\ OneInstant(post_sentiments))
        => Len(sentiment_over_time) >= 3

\* C12: when the input holds no valid post (the list is empty, or every
\* element lacks non-empty text), analyze_sentiment returns overall (0,0,0)
\* with an empty overTime and raises nothing, and it never enters the batch
\* loop, the only place where the oracle is called.
NoValidPostReturnsZeros ==
    (pc # "start" /\ \A k \in 1..Len(posts) : ~posts[k].text) =>
        /\ pc = "done"
        /\ exception = ""
        /\ result = Returned(Zero3, <<>>)
        /\ batch_start = 0 /\ processed_indices = {} /\ post_sentiments = <<>>

\* C12, its case: a call with a non-empty list none of whose elements has
\* text has returned.
OnlyInvalidPostsReturned ==
    /\ pc = "done"
    /\ Len(posts) > 0
    /\ \A k \in 1..Len(posts) : ~posts[k].text
    /\ result.returned

\* C13: when the answer to a batch is strict JSON whose three summary
\* counts sum to the batch size, the counts added to the running totals are
\* the reported counts, and every post of the batch that the 'individual'
\* list names (once) with a sentiment of the three has exactly that
\* sentiment afterwards.
RoundTripUnchanged ==
    [][(pc = "batch" /\ batch_start \in DOMAIN answers') =>
          LET resp == answers'[batch_start]
              entries == resp.individual.entries
              Naming(i) == {k \in 1..Len(entries) : entries[k].ok /\ entries[k].idx = i}
          IN  (resp.kind = "strict" /\ resp.summary.shape = "counts"
               /\ Sum3(resp.summary) = BatchLen) =>
                 /\ positive_count' - positive_count = resp.summary.positive
                 /\ neutral_count' - neutral_count = resp.summary.neutral
                 /\ negative_count' - negative_count = resp.summary.negative
                 /\ \A i \in BatchIndices : \A k \in Naming(i) :
                       (Cardinality(Naming(i)) = 1 /\ entries[k].word \in SentimentSet)
                           => LabelsOf(i)' = {entries[k].word}]_vars

\* x is an integer nearest to the quotient num/den (den > 0).
Nearest(x, num, den) == 2 * Abs(x * den - num) <= den

\* C14: for a batch of n posts and reported counts (p, u, g) whose sum s is
\* not n: if s > 0 the counts added are positive = p*n/s and negative =
\* g*n/s, each rounded to a nearest integer, and neutral = n - positive -
\* negative; if s = 0 the counts added are (0, n, 0).  Reported (3, 3, 3)
\* with n = 8 gives positive 3, negative 3, neutral 2.
CountsRescaledAsRuled ==
    /\ Reconcile(3, 3, 3, 8) = Triple(3, 2, 3)
    /\ (pc = "verify" /\ 0 \in DOMAIN answers) =>
          LET r == answers[0].summary
              n == NumValid
              s == Sum3(r)
          IN  /\ (s # n /\ s > 0) =>
                    /\ Nearest(positive_count, r.positive * n, s)
                    /\ Nearest(negative_count, r.negative * n, s)
                    /\ neutral_count = n - positive_count - negative_count
              /\ s = 0 =>
                    Triple(positive_count, neutral_count, negative_count) = Triple(0, n, 0)

\* C15: the percentage computation applied, with total 100, to three
\* integers of 0..100 that sum to 100 returns the same three: for the
\* overall percentages of the counts, and for the percentages of a period
\* of 100 posts with these counts.
NormalizerIdempotent ==
    LET t == Triple(positive_count, neutral_count, negative_count)
    IN  (pc = "timestamps" /\ Sum3(t) = Hundred /\ InRange(t)) =>
            /\ direct_sentiment = t
            /\ PeriodPercentages(PercentBlock(t)) = t

\* C15, its case: the percentages of the counts (33, 33, 34) have been
\* computed.
ThirdsNormalized ==
    /\ pc = "timestamps"
    /\ Triple(positive_count, neutral_count, negative_count) = Triple(33, 33, 34)
    /\ direct_sentiment = Triple(33, 33, 34)

\* C16: the batch loop sends one prompt per consecutive slice of at most
\* batch_size posts, starting at 0 (only the last slice may be shorter);
\* the prompt of the slice starting at b has one entry per post of the
\* slice, in order, entry i with identifier POST_ID_<b + i> and the post's
\* text, or the placeholder for a post without text; no identifier occurs
\* twice, and when the loop is over every index 0..N-1 is in exactly one
\* prompt.
BatchesPartitionPosts ==
    LET starts == DOMAIN answers
        Ids(b) == {answers[b].prompt[k].post_id : k \in 1..Len(answers[b].prompt)}
    IN  /\ \A b \in starts :
              LET prompt == answers[b].prompt
              IN  /\ b % batch_size = 0
                  /\ b > 0 => (b - batch_size) \in starts
                  /\ Len(prompt) \in 1..batch_size
                  /\ b + Len(prompt) <= NumValid
                  /\ Len(prompt) < batch_size => b + Len(prompt) = NumValid
                  /\ \A k \in 1..Len(prompt) :
                        /\ prompt[k].post_id = b + (k - 1)
                        /\ prompt[k].text = IF valid_posts[b + k].text THEN "text"
                                            ELSE "(No content)"
        /\ \A b1, b2 \in starts : b1 # b2 => Ids(b1) \cap Ids(b2) = {}
        /\ pc \in {"verify", "percent", "timestamps", "overtime"} =>
              \A i \in AllIndices : Cardinality({b \in starts : i \in Ids(b)}) = 1

\* C16, its case: a call has returned whose loop formed several batches, the
\* last one shorter than batch_size, with a post without text in a batch
\* after the first.
SeveralPromptsSent ==
    /\ pc = "overtime"
    /\ Cardinality(DOMAIN answers) >= 2
    /\ NumValid % batch_size # 0
    /\ \E k \in (batch_size + 1)..NumValid : ~valid_posts[k].text

\* C17: process_timestamps synthesizes exactly when fewer than 70% of the
\* posts carry a timestamp (at exactly 70% it does not).  When it does,
\* every post is flagged and gets a point in time within the 7 days up to
\* the current time, the times increasing in round-robin order over
\* positive, neutral, negative (the first post of each sentiment, then the
\* second of each, ...).  When it does not, no post is flagged and every
\* timestamp that is a native point in time stays as it is.
SynthesizesBelowSeventyPercent ==
    [][pc = "timestamps" =>
          LET before == post_sentiments
              after == post_sentiments'
              n == Len(before)
              carrying == Cardinality({k \in 1..n : before[k].ts.kind # "absent"})
              Turn(k) == Cardinality({j \in 1..k : before[j].sentiment = before[k].sentiment})
              Prio(k) == CHOOSE c \in 1..3 : Sentiments[c] = before[k].sentiment
              Earlier(j, k) == \/ Turn(j) < Turn(k)
                               \/ Turn(j) = Turn(k) /\ Prio(j) < Prio(k)
          IN  /\ Len(after) = n
              /\ \A k \in 1..n : /\ after[k].index = before[k].index
                                 /\ after[k].sentiment = before[k].sentiment
              /\ IF 10 * carrying < 7 * n
                 THEN \A k \in 1..n :
                         /\ after[k].artificial
                         /\ after[k].ts.kind = "datetime"
                         /\ after[k].ts.wall >= current_time.wall - 7 * MinutesPerDay
                         /\ after[k].ts.wall <= current_time.wall
                         /\ \A j \in 1..n :
                               Earlier(j, k) => after[j].ts.wall < after[k].ts.wall
                 ELSE \A k \in 1..n :
                         /\ ~after[k].artificial
                         /\ before[k].ts.kind = "datetime" => after[k].ts = before[k].ts]_vars

\* C17, its case: process_timestamps has returned from a list of 10 posts
\* of more than one sentiment, 7 of which carried a timestamp: nothing is
\* flagged, and the 3 posts without one have the current time.
ExactlySeventyPercentKept ==
    /\ pc = "overtime"
    /\ Len(post_sentiments) = 10
    /\ \A k \in 1..10 : ~post_sentiments[k].artificial
    /\ Cardinality({k \in 1..10 : post_sentiments[k].ts = current_time}) = 3
    /\ \E j, k \in 1..10 : post_sentiments[j].sentiment # post_sentiments[k].sentiment

\* The rounded percentages at the three sites, before any adjustment: of
\* the running counts, of the posts of the k-th period, and of the
\* count-weighted period percentages.
RoundedDirect ==
    Triple(Round(positive_count * 100, CountsSum), Round(neutral_count * 100, CountsSum),
           Round(negative_count * 100, CountsSum))

RoundedPeriod(k) ==
    LET period_posts == TimeGroups(post_sentiments, time_interval)
                            .groups[sentiment_over_time[k].period]
        Share(x) == Round(CountOf(period_posts, x) * 100, Len(period_posts))
    IN  Triple(Share("positive"), Share("neutral"), Share("negative"))

RoundedWeighted ==
    Triple(Weighted(sentiment_over_time, "positive"),
           Weighted(sentiment_over_time, "neutral"),
           Weighted(sentiment_over_time, "negative"))

\* out is r with the whole difference 100 - sum added to the one category
\* that is largest in r, the first of positive, neutral, negative among
\* equals.
DriftToLargest(r, out) ==
    LET largest == CHOOSE c \in 1..3 :
                      /\ \A d \in 1..3 : r[Sentiments[c]] >= r[Sentiments[d]]
                      /\ \A d \in 1..(c - 1) : r[Sentiments[d]] < r[Sentiments[c]]
    IN  \A c \in 1..3 :
            out[Sentiments[c]] = r[Sentiments[c]]
                                 + (IF c = largest THEN 100 - Sum3(r) ELSE 0)

\* C18: at each of the three sites (overall percentages, percentages of a
\* period, time-weighted percentages), when the rounded percentages do not
\* sum to 100, the whole difference is added to the largest of them, the
\* first of positive, neutral, negative among equals, and the other two
\* keep their rounded values.
DriftAddedToLargest ==
    /\ (PercentagesComputed /\ CountsSum > 0 /\ Sum3(RoundedDirect) # 100)
          => DriftToLargest(RoundedDirect, direct_sentiment)
    /\ pc \in {"crosscheck", "done"} =>
          \A k \in 1..Len(sentiment_over_time) :
              Sum3(RoundedPeriod(k)) # 100
                  => DriftToLargest(RoundedPeriod(k), sentiment_over_time[k].sentiment)
    /\ (pc = "done" /\ Checked(sentiment_over_time) /\ Sum3(RoundedWeighted) # 100)
          => DriftToLargest(RoundedWeighted, weighted_sentiment)

\* C18, its case: a call has returned in which all three sites had a
\* difference to add, the period's among three equal percentages.
AllSitesAdjusted ==
    /\ pc = "done"
    /\ CountsSum > 0
    /\ Sum3(RoundedDirect) # 100
    /\ \E k \in 1..Len(sentiment_over_time) : RoundedPeriod(k) = Triple(33, 33, 33)
    /\ Sum3(RoundedWeighted) # 100

\* C19: the sentiment a post i of batch B is given is a function of the
\* entries of B's own answer that name POST_ID_i alone: the word of the
\* last of them (positive, negative, anything else is neutral), neutral
\* when there is none.  It is the same whatever the summary counts are,
\* and handling B's answer changes the sentiment of no post outside B,
\* whatever index its entries name.
SentimentFromOwnEntries ==
    [][(pc = "batch" /\ batch_start \in DOMAIN answers') =>
          LET entries == answers'[batch_start].individual.entries
              Naming(i) == {k \in 1..Len(entries) : entries[k].ok /\ entries[k].idx = i}
              LastWord(i) == entries[CHOOSE k \in Naming(i) : \A j \in Naming(i) : j <= k].word
              Given(i) == IF Naming(i) = {} THEN "neutral"
                          ELSE IF LastWord(i) \in {"pos", "positive"} THEN "positive"
                          ELSE IF LastWord(i) \in {"neg", "negative"} THEN "negative"
                          ELSE "neutral"
          IN  /\ \A i \in BatchIndices :
                    /\ LabelsOf(i)' \subseteq {Given(i)}
                    /\ exception' = "" => LabelsOf(i)' = {Given(i)}
              /\ \A i \in AllIndices \ BatchIndices : LabelsOf(i)' = LabelsOf(i)]_vars

\* C19, its case: a batch of two posts was answered with a summary that
\* does not sum to 2 and with entries naming post 2, outside the batch,
\* negative and post 0 positive; post 0 is positive, and post 2, whose own
\* batch's answer did not name it, is neutral.
OutsideEntryIgnored ==
    /\ pc = "percent"
    /\ NumValid = 3 /\ batch_size = 2
    /\ DOMAIN answers = {0, 2}
    /\ Sum3(answers[0].summary) # 2
    /\ answers[0].individual.entries
          = <<[ok |-> TRUE, idx |-> 2, word |-> "negative"],
              [ok |-> TRUE, idx |-> 0, word |-> "positive"]>>
    /\ LabelsOf(0) = {"positive"}
    /\ LabelsOf(2) = {"neutral"}

\* C20: the series get_sentiment_over_time returns has its period keys in
\* strictly increasing order (chronological, none twice), and every post
\* counted in an earlier period has an instant not later than that of
\* every post counted in a later period, with natural and with artificial
\* bucketing alike.
PeriodsInTimeOrder ==
    SeriesReturned =>
        LET series == sentiment_over_time
            groups == TimeGroups(post_sentiments, time_interval).groups
            Counted(k) == groups[series[k].period]
        IN  /\ \A k \in 1..(Len(series) - 1) : series[k].period < series[k + 1].period
            /\ \A k, l \in 1..Len(series) :
                  k < l => \A a \in 1..Len(Counted(k)), b \in 1..Len(Counted(l)) :
                              Instant(Counted(k)[a].ts) <= Instant(Counted(l)[b].ts)

\* C21: whatever the interval (hour, day, week) and whatever the list of
\* labeled posts with timestamps, the counts of the returned periods add up
\* to the number of posts passed in and every returned period counts at
\* least one post, with natural and with artificial bucketing alike.
EveryPostCountedOnce ==
    SeriesReturned =>
        /\ TotalPosts(sentiment_over_time) = Len(post_sentiments)
        /\ \A k \in 1..Len(sentiment_over_time) : sentiment_over_time[k].count >= 1

\* C22: in every iteration of the batch loop whose answer reports three
\* non-negative integer counts, each of the three counts added to the
\* running totals lies between 0 and len(batch); the neutral count, which
\* takes the remainder of the rescaling, is never negative.
ReconciledCountsWithinBatch ==
    [][(pc = "batch" /\ batch_start \in DOMAIN answers') =>
          LET summary == answers'[batch_start].summary
          IN  (summary.positive >= 0 /\ summary.neutral >= 0 /\ summary.negative >= 0) =>
                 /\ positive_count' - positive_count \in 0..BatchLen
                 /\ neutral_count' - neutral_count \in 0..BatchLen
                 /\ negative_count' - negative_count \in 0..BatchLen]_vars
====
